---- MODULE Spec2Model ----
(***************************************************************************)
(* Model of AbstractStartLiveStreamDialog                                  *)
(* (react/features/recording/components/LiveStream).                       *)
(*                                                                         *)
(* JavaScript values are modelled as follows.  Strings are TLA+ strings;   *)
(* the values undefined and null are the two distinguished strings         *)
(* Undefined and Null.  An optional array or object is a record            *)
(* [kind, items]: kind "undefined" (items empty), kind "array" (items the  *)
(* elements) or kind "object" (items the one object).                      *)
(***************************************************************************)
EXTENDS Integers, Sequences, FiniteSets, TLC

VARIABLES state, isMounted, phase, props, initApiCalls, last

vars == <<state, isMounted, phase, props, initApiCalls, last>>

----------------------------------------------------------------------------
(* Bounds and value universes *)

MaxBroadcasts == 2

Undefined == "undefined"
Null == "null"

StreamKeys == {"", "k1"}
PropStreamKeys == {Undefined, "p1"}
BoundStreamIDs == {"b1", "b2"}
BroadcastIDs == {"1", "2"}
ErrorTypes == {Undefined, "e1"}
ClientIDs == {Undefined, "cid"}
Conferences == {Undefined, "conference"}

Broadcast == [id : BroadcastIDs, boundStreamID : BoundStreamIDs]

UndefinedValue == [kind |-> "undefined", items |-> <<>>]

ArrayValue(items) == [kind |-> "array", items |-> items]

ObjectValue(obj) == [kind |-> "object", items |-> <<obj>>]

BroadcastLists ==
    {UndefinedValue} \cup
    {ArrayValue(s) : s \in UNION {[1..n -> Broadcast] : n \in 0..MaxBroadcasts}}

StateKeys == {"broadcasts", "errorType", "selectedBoundStreamID", "streamKey"}

FieldValues(k) ==
    CASE k = "broadcasts" -> BroadcastLists
      [] k = "errorType" -> ErrorTypes
      [] k = "selectedBoundStreamID" -> {Undefined} \cup BoundStreamIDs
      [] k = "streamKey" -> StreamKeys

(* The new-state arguments handed to the merge helper: partial states.     *)
NewStates == UNION {{k :> v : v \in FieldValues(k)} : k \in StateKeys}

Props == [_conference : Conferences,
          _googleApiApplicationClientID : ClientIDs,
          _streamKey : PropStreamKeys]

----------------------------------------------------------------------------
(* JavaScript semantics used by the component *)

Truthy(v) == v \notin {Undefined, Null, ""}

JSOr(a, b) == IF Truthy(a) THEN a ELSE b

(* React's setState: shallow merge of newState into the state.             *)
SetState(st, newState) ==
    [k \in StateKeys |-> IF k \in DOMAIN newState THEN newState[k] ELSE st[k]]

RECURSIVE FindFrom(_, _, _)
FindFrom(items, s, i) ==
    IF i > Len(items) THEN UndefinedValue
    ELSE IF items[i].boundStreamID = s THEN ObjectValue(items[i])
    ELSE FindFrom(items, s, i + 1)

(* Array.prototype.find with the predicate of _onSubmit.                   *)
ArrayFind(items, s) == FindFrom(items, s, 1)

----------------------------------------------------------------------------
(* The component *)

STREAM == "stream"

InitialState ==
    [broadcasts |-> UndefinedValue,
     errorType |-> Undefined,
     selectedBoundStreamID |-> Undefined,
     streamKey |-> ""]

RecordingDialogEvent(category, action) ==
    [category |-> category, action |-> action]

NoEffects ==
    [ret |-> "none", fault |-> FALSE, events |-> <<>>, calls |-> <<>>]

Last(op, arg, applied, changes, eff) ==
    [op |-> op, arg |-> arg, applied |-> applied, changes |-> changes,
     ret |-> eff.ret, fault |-> eff.fault, events |-> eff.events,
     calls |-> eff.calls]

SetStateIfMounted_unguarded(st, mounted, newState) == SetState(st, newState)

SetStateIfMounted(st, mounted, newState) ==
    IF mounted THEN SetState(st, newState) ELSE st

InitializeTriggered_always(pr) == TRUE

InitializeTriggered(pr) == Truthy(pr._googleApiApplicationClientID)

StreamKeyChangeState_keepSelection(streamKey) == "streamKey" :> streamKey

StreamKeyChangeState(streamKey) ==
    ("streamKey" :> streamKey) @@ ("selectedBoundStreamID" :> Undefined)

CancelEffects_confirm ==
    [ret |-> "true", fault |-> FALSE,
     events |-> <<RecordingDialogEvent("start", "confirm.button")>>,
     calls |-> <<>>]

CancelEffects ==
    [ret |-> "true", fault |-> FALSE,
     events |-> <<RecordingDialogEvent("start", "cancel.button")>>,
     calls |-> <<>>]

EffectiveKey_propsFirst(st, pr) == JSOr(pr._streamKey, st.streamKey)

EffectiveKey(st, pr) == JSOr(st.streamKey, pr._streamKey)

KeyMissing_never(key) == FALSE

KeyMissing(key) == ~Truthy(key)

SelectedBroadcast_last(broadcasts, selectedBoundStreamID) ==
    IF broadcasts.kind = "undefined" THEN broadcasts
    ELSE LET m == {i \in 1..Len(broadcasts.items) :
                      broadcasts.items[i].boundStreamID = selectedBoundStreamID}
         IN IF m = {} THEN UndefinedValue
            ELSE ObjectValue(broadcasts.items[CHOOSE i \in m : \A j \in m : j <= i])

(* broadcasts && broadcasts.find(...)                                      *)
SelectedBroadcast(broadcasts, selectedBoundStreamID) ==
    IF broadcasts.kind = "undefined" THEN broadcasts
    ELSE ArrayFind(broadcasts.items, selectedBoundStreamID)

SelectedBroadcastID(broadcasts, selectedBoundStreamID) ==
    IF Truthy(selectedBoundStreamID)
    THEN LET selectedBroadcast ==
                 SelectedBroadcast(broadcasts, selectedBoundStreamID)
         IN  (* selectedBroadcast && selectedBroadcast.id *)
             IF selectedBroadcast.kind = "object"
             THEN selectedBroadcast.items[1].id
             ELSE Undefined
    ELSE Null

SubmitEffects(st, pr) ==
    LET key == EffectiveKey(st, pr) IN
    IF KeyMissing(key)
    THEN [ret |-> "false", fault |-> FALSE, events |-> <<>>, calls |-> <<>>]
    ELSE LET selectedBroadcastID ==
                 SelectedBroadcastID(st.broadcasts, st.selectedBoundStreamID)
             sent == <<RecordingDialogEvent("start", "confirm.button")>>
         IN  IF pr._conference = Undefined
             THEN (* TypeError: property access on undefined *)
                  [ret |-> "none", fault |-> TRUE, events |-> sent,
                   calls |-> <<>>]
             ELSE [ret |-> "true", fault |-> FALSE, events |-> sent,
                   calls |-> <<[broadcastId |-> selectedBroadcastID,
                                mode |-> STREAM,
                                streamId |-> key]>>]

----------------------------------------------------------------------------
(* State machine *)

Init ==
    /\ state = InitialState
    /\ isMounted = FALSE
    /\ phase = "constructed"
    /\ props \in Props
    /\ initApiCalls = 0
    /\ last = Last("constructor", Undefined, FALSE, FALSE, NoEffects)

ComponentDidMount ==
    /\ phase = "constructed"
    /\ phase' = "mounted"
    /\ isMounted' = TRUE
    /\ initApiCalls' = IF InitializeTriggered(props)
                       THEN initApiCalls + 1 ELSE initApiCalls
    /\ last' = Last("componentDidMount", Undefined, FALSE, FALSE, NoEffects)
    /\ UNCHANGED <<state, props>>

ComponentWillUnmount ==
    /\ phase = "mounted"
    /\ phase' = "unmounted"
    /\ isMounted' = FALSE
    /\ last' = Last("componentWillUnmount", Undefined, FALSE, FALSE, NoEffects)
    /\ UNCHANGED <<state, props, initApiCalls>>

OnCancel ==
    /\ last' = Last("onCancel", Undefined, FALSE, FALSE, CancelEffects)
    /\ UNCHANGED <<state, isMounted, phase, props, initApiCalls>>

OnStreamKeyChange ==
    \E streamKey \in StreamKeys :
        LET newState == StreamKeyChangeState(streamKey) IN
        /\ state' = SetStateIfMounted(state, isMounted, newState)
        /\ last' = Last("onStreamKeyChange", streamKey, isMounted,
                        SetState(state, newState) # state, NoEffects)
        /\ UNCHANGED <<isMounted, phase, props, initApiCalls>>

OnSubmit ==
    /\ last' = Last("onSubmit", Undefined, FALSE, FALSE,
                    SubmitEffects(state, props))
    /\ UNCHANGED <<state, isMounted, phase, props, initApiCalls>>

(* _setStateIfMounted called by a platform handler or by the completion of *)
(* an asynchronous request, in any phase.                                  *)
SetStateIfMountedCall ==
    \E newState \in NewStates :
        /\ state' = SetStateIfMounted(state, isMounted, newState)
        /\ last' = Last("setStateIfMounted", Undefined, isMounted,
                        SetState(state, newState) # state, NoEffects)
        /\ UNCHANGED <<isMounted, phase, props, initApiCalls>>

Next ==
    \/ ComponentDidMount
    \/ ComponentWillUnmount
    \/ OnCancel
    \/ OnStreamKeyChange
    \/ OnSubmit
    \/ SetStateIfMountedCall

Spec == Init /\ [][Next]_vars

----------------------------------------------------------------------------
(* Properties *)

MergeOps == {"setStateIfMounted", "onStreamKeyChange"}

(* C1: once the component has been unmounted, a call of the merge helper   *)
(* _setStateIfMounted, whatever its argument and whoever calls it, leaves  *)
(* the dialog state (broadcasts, errorType, selectedBoundStreamID,         *)
(* streamKey) unchanged.                                                   *)
C1_NoMergeAfterUnmount ==
    [][(phase = "unmounted" /\ last'.op \in MergeOps) => state' = state]_vars

C1_Witness ==
    /\ phase = "unmounted"
    /\ last.op = "setStateIfMounted"
    /\ last.changes
    /\ ~last.applied
    /\ state # InitialState

(* C2 as stated: after onStreamKeyChange(k) the state has streamKey = k    *)
(* and selectedBoundStreamID undefined, whether or not the component is    *)
(* mounted.                                                                *)
C2_Original ==
    last.op = "onStreamKeyChange" =>
        /\ state.streamKey = last.arg
        /\ state.selectedBoundStreamID = Undefined

(* C2 amended: onStreamKeyChange(k) called while the component is mounted  *)
(* results in streamKey = k and selectedBoundStreamID undefined, the other *)
(* fields kept; called before mount or after unmount it leaves the state   *)
(* unchanged.                                                              *)
C2_StreamKeyChange ==
    [][last'.op = "onStreamKeyChange" =>
          IF isMounted
          THEN /\ state'.streamKey = last'.arg
               /\ state'.selectedBoundStreamID = Undefined
               /\ state'.broadcasts = state.broadcasts
               /\ state'.errorType = state.errorType
          ELSE state' = state]_vars

C2_Witness ==
    /\ last.op = "onStreamKeyChange"
    /\ last.applied
    /\ last.changes
    /\ last.arg = "k1"
    /\ state.streamKey = "k1"
    /\ state.broadcasts.kind = "array"

(* C3: onSubmit with the typed key and the props key both empty or absent  *)
(* returns false, calls startRecording not at all, sends no analytics      *)
(* event and leaves the dialog state unchanged.                            *)
C3_SubmitWithoutKey ==
    [][(/\ last'.op = "onSubmit"
        /\ state.streamKey = ""
        /\ props._streamKey \in {Undefined, Null, ""}) =>
          /\ last'.ret = "false"
          /\ last'.calls = <<>>
          /\ last'.events = <<>>
          /\ ~last'.fault
          /\ state' = state]_vars

C3_Witness ==
    /\ last.op = "onSubmit"
    /\ state.streamKey = ""
    /\ props._streamKey = Undefined
    /\ state.selectedBoundStreamID = "b1"
    /\ state.broadcasts.kind = "array"
    /\ last.ret = "false"

HasMatch(broadcasts, s) ==
    /\ broadcasts.kind = "array"
    /\ \E i \in 1..Len(broadcasts.items) : broadcasts.items[i].boundStreamID = s

KeyPresent ==
    \/ state.streamKey # ""
    \/ props._streamKey \notin {Undefined, Null, ""}

(* C4: onSubmit with a key available and selectedBoundStreamID set to a    *)
(* value no broadcast is bound to (broadcasts absent or empty included)    *)
(* calls startRecording once with broadcastId null and returns true.       *)
(* Stated for a present conference handle; the absent handle is the case   *)
(* of C10.                                                                 *)
C4_Claim ==
    (/\ last.op = "onSubmit"
     /\ props._conference # Undefined
     /\ KeyPresent
     /\ state.selectedBoundStreamID \in BoundStreamIDs
     /\ ~HasMatch(state.broadcasts, state.selectedBoundStreamID)) =>
        /\ last.ret = "true"
        /\ Len(last.calls) = 1
        /\ last.calls[1].broadcastId = Null

(* C5: onSubmit with a non-empty typed key k and no selectedBoundStreamID  *)
(* returns true and calls startRecording exactly once with                 *)
(* {broadcastId: null, mode: STREAM, streamId: k}.                         *)
C5_Claim ==
    (/\ last.op = "onSubmit"
     /\ state.streamKey # ""
     /\ state.selectedBoundStreamID = Undefined) =>
        /\ last.ret = "true"
        /\ last.calls = <<[broadcastId |-> Null, mode |-> "stream",
                           streamId |-> state.streamKey]>>

(* C6: when onSubmit runs with selectedBoundStreamID = s and some          *)
(* broadcast bound to s, the broadcastId it passes to startRecording is    *)
(* the id of the earliest entry of broadcasts bound to s.                  *)
C6_FirstMatchWins ==
    (/\ last.op = "onSubmit"
     /\ HasMatch(state.broadcasts, state.selectedBoundStreamID)) =>
        \A c \in 1..Len(last.calls) :
            \E i \in 1..Len(state.broadcasts.items) :
                /\ state.broadcasts.items[i].boundStreamID =
                       state.selectedBoundStreamID
                /\ \A j \in 1..(i - 1) :
                       state.broadcasts.items[j].boundStreamID #
                           state.selectedBoundStreamID
                /\ last.calls[c].broadcastId = state.broadcasts.items[i].id

C6_Witness ==
    /\ last.op = "onSubmit"
    /\ Len(last.calls) = 1
    /\ state.selectedBoundStreamID = "b1"
    /\ state.broadcasts.kind = "array"
    /\ Len(state.broadcasts.items) = 2
    /\ state.broadcasts.items[1] = [id |-> "2", boundStreamID |-> "b1"]
    /\ state.broadcasts.items[2] = [id |-> "1", boundStreamID |-> "b1"]
    /\ last.calls[1].broadcastId = "2"

(* C7: onCancel, in any state, returns true, sends exactly one analytics   *)
(* event, with category "start" and action "cancel.button", calls          *)
(* startRecording not at all and leaves the dialog state and the mount     *)
(* flag unchanged.                                                         *)
C7_Cancel ==
    [][last'.op = "onCancel" =>
          /\ last'.ret = "true"
          /\ ~last'.fault
          /\ last'.events = <<[category |-> "start",
                               action |-> "cancel.button"]>>
          /\ last'.calls = <<>>
          /\ state' = state
          /\ isMounted' = isMounted]_vars

C7_Witness ==
    /\ last.op = "onCancel"
    /\ phase = "unmounted"
    /\ state # InitialState
    /\ Len(last.events) = 1

(* C8: the streamId onSubmit passes to startRecording is the typed key     *)
(* when that is non-empty and the props key otherwise, and is never        *)
(* empty or absent.                                                        *)
C8_EffectiveKey ==
    last.op = "onSubmit" =>
        \A c \in 1..Len(last.calls) :
            /\ last.calls[c].streamId =
                   (IF state.streamKey # "" THEN state.streamKey
                    ELSE props._streamKey)
            /\ last.calls[c].streamId \notin {Undefined, Null, ""}

C8_Witness ==
    /\ last.op = "onSubmit"
    /\ state.streamKey = "k1"
    /\ props._streamKey = "p1"
    /\ Len(last.calls) = 1
    /\ last.calls[1].streamId = "k1"

(* C9: the mount transition sets the mount flag and triggers               *)
(* _onInitializeGoogleApi exactly when a Google API client ID is           *)
(* configured; the operation is triggered nowhere else, and until mount    *)
(* the dialog state keeps its initial value.                               *)
C9_MountOrdering ==
    /\ [](phase = "constructed" =>
              /\ state = InitialState
              /\ ~isMounted
              /\ initApiCalls = 0)
    /\ [][/\ last'.op = "componentDidMount" =>
               /\ isMounted'
               /\ initApiCalls' = initApiCalls +
                      (IF props._googleApiApplicationClientID
                              \in {Undefined, Null, ""}
                       THEN 0 ELSE 1)
          /\ last'.op # "componentDidMount" =>
               initApiCalls' = initApiCalls]_vars

C9_Witness ==
    /\ last.op = "componentDidMount"
    /\ phase = "mounted"
    /\ isMounted
    /\ props._googleApiApplicationClientID = "cid"
    /\ initApiCalls = 1
    /\ state = InitialState

(* C10: no operation of the component ends in a raised fault, whatever the *)
(* dialog state and the props, props with undefined fields included.       *)
C10_Claim == ~last.fault

====
